---- MODULE Spec2Model ----
(***************************************************************************)
(* Model of the Flipkart product scraper: the enhanced variant             *)
(* (advanced_scraper.py, class WebScraper) and the minimal variant         *)
(* (Web Scrapper.py).  Text is a sequence of one-character strings; an     *)
(* optional value (Python None or a value) is the empty sequence or a      *)
(* one-element sequence; an HTML document is the sequence of its elements. *)
(***************************************************************************)
EXTENDS Integers, Sequences, FiniteSets, TLC

VARIABLES max_retries, delay, runs_left, now, pc, variant,
          search_query, output_format, output_filename,
          attempt, gets, outcomes, sleeps, html, products,
          fs, fs_before, io_seen, save_ret, written, stages, log

vars == <<max_retries, delay, runs_left, now, pc, variant,
          search_query, output_format, output_filename,
          attempt, gets, outcomes, sleeps, html, products,
          fs, fs_before, io_seen, save_ret, written, stages, log>>

(* ------------------------------ bounds -------------------------------- *)
MaxRetries == 3
MaxDelay == 1
MaxRuns == 2
MaxGap == 2
MaxContainers == 2
TicksPerSecond == 2

(* ------------------------- program constants -------------------------- *)
BackoffUnit == 2
MinimalSleep == 2

(* ------------------------------ values -------------------------------- *)
None == << >>
Some(x) == <<x>>
NA == <<"N", "/", "A">>
RetNone == "None"

(* str.strip(): drop leading and trailing whitespace *)
RECURSIVE lstrip(_)
lstrip(s) == IF s # << >> /\ Head(s) = " " THEN lstrip(Tail(s)) ELSE s
RECURSIVE rstrip(_)
rstrip(s) == IF s # << >> /\ s[Len(s)] = " " THEN rstrip(SubSeq(s, 1, Len(s) - 1)) ELSE s
strip(s) == rstrip(lstrip(s))

(* str.replace(old, new) for a one-character old *)
RECURSIVE replace(_, _, _)
replace(s, old, new) ==
    IF s = << >> THEN << >>
    ELSE <<(IF Head(s) = old THEN new ELSE Head(s))>> \o replace(Tail(s), old, new)

(* datetime.now().strftime(...) with %S as its finest field: the clock,    *)
(* kept in ticks, is cut down to whole seconds                             *)
strftime(t) == ToString(t \div TicksPerSecond)

(* Python truthiness of an Optional[str] and of a list *)
truthy_mutant(h) == h # None
truthy(h) == h # None /\ h[1] # << >>
no_products_mutant(p) == FALSE
no_products(p) == p = << >>

(* ---------------------------- HTML documents --------------------------- *)
ContainerClass == "tUxRFH"
OtherElement == [class |-> "other"]
NameText == <<" ", "n", " ">>
PriceText == <<"p", " ">>
RatingText == <<" ", "r">>
Href == <<"/", "x">>
LinkElems == {None, Some([href |-> None]), Some([href |-> Some(Href)])}

(* a product card whose fields are each present or absent; fault marks a   *)
(* card on which reading a field fails unexpectedly                        *)
Containers ==
    { [class |-> ContainerClass, name |-> n, price |-> p, rating |-> r,
       link |-> l, fault |-> FALSE] :
         n \in {None, Some(NameText)}, p \in {None, Some(PriceText)},
         r \in {None, Some(RatingText)}, l \in LinkElems }
    \cup
    { [class |-> ContainerClass, name |-> Some(NameText), price |-> Some(PriceText),
       rating |-> Some(RatingText), link |-> Some([href |-> Some(Href)]),
       fault |-> TRUE] }

SeqsUpTo(S, n) == UNION { [1..k -> S] : k \in 0..n }
Pages == SeqsUpTo(Containers \cup {OtherElement}, MaxContainers)

find_all(doc) == SelectSeq(doc, LAMBDA e : e.class = ContainerClass)

(* ------------------------- Extractor (enhanced) ------------------------ *)
field_text(elem) == IF elem # None THEN strip(elem[1]) ELSE NA

link_value(elem) ==
    IF elem # None /\ elem[1].href # None
    THEN <<"https://www.flipkart.com">> \o elem[1].href[1]
    ELSE NA

product_data(c, t) ==
    [Name |-> field_text(c.name), Price |-> field_text(c.price),
     Rating |-> field_text(c.rating), Link |-> link_value(c.link),
     Scraped_At |-> strftime(t)]

RECURSIVE extract_loop(_, _)
extract_loop(cs, t) ==
    IF cs = << >> THEN << >>
    ELSE IF Head(cs).fault THEN extract_loop(Tail(cs), t)
    ELSE <<product_data(Head(cs), t)>> \o extract_loop(Tail(cs), t)

extract_products(doc, t) == extract_loop(find_all(doc), t)

(* -------------------------- Extractor (minimal) ------------------------ *)
(* product.find(...).text on an absent node raises AttributeError, which   *)
(* nothing in extract catches                                              *)
minimal_raises(c) == c.fault \/ c.name = None \/ c.price = None \/ c.rating = None

minimal_record(c) ==
    [Name |-> strip(c.name[1]), Price |-> strip(c.price[1]), Rating |-> strip(c.rating[1])]

RECURSIVE minimal_loop(_)
minimal_loop(cs) ==
    IF cs = << >> THEN [raised |-> FALSE, products |-> << >>]
    ELSE IF minimal_raises(Head(cs)) THEN [raised |-> TRUE, products |-> << >>]
    ELSE LET rest == minimal_loop(Tail(cs))
         IN  [raised |-> rest.raised,
              products |-> IF rest.raised THEN << >>
                           ELSE <<minimal_record(Head(cs))>> \o rest.products]

extract(doc) == minimal_loop(find_all(doc))

(* ------------------------------ Persister ------------------------------ *)
IOOutcomes == {"ok", "open_fails", "write_fails"}
EmptyFs == [n \in {} |-> 0]
put(files, name, content) ==
    [n \in (DOMAIN files) \cup {name} |-> IF n = name THEN content ELSE files[n]]

(* open(filename, 'w') truncates the file; a failure after it leaves the   *)
(* truncated file behind                                                   *)
write_file(files, filename, format, products_, io) ==
    IF io = "ok" THEN put(files, filename, [format |-> format, rows |-> products_])
    ELSE IF io = "write_fails" THEN put(files, filename, [format |-> format, rows |-> << >>])
    ELSE files

save_to_csv_mutant(products_, filename, files, io) ==
    [fs |-> write_file(files, filename, "csv", products_, io), ret |-> RetNone,
     log |-> IF io = "ok" THEN <<"INFO Successfully saved">> ELSE <<"ERROR Error saving to CSV">>]
save_to_csv(products_, filename, files, io) ==
    IF products_ = << >>
    THEN [fs |-> files, ret |-> RetNone, log |-> <<"WARNING No products to save">>]
    ELSE [fs |-> write_file(files, filename, "csv", products_, io), ret |-> RetNone,
          log |-> IF io = "ok" THEN <<"INFO Successfully saved">>
                  ELSE <<"ERROR Error saving to CSV">>]

save_to_json(products_, filename, files, io) ==
    IF products_ = << >>
    THEN [fs |-> files, ret |-> RetNone, log |-> <<"WARNING No products to save">>]
    ELSE [fs |-> write_file(files, filename, "json", products_, io), ret |-> RetNone,
          log |-> IF io = "ok" THEN <<"INFO Successfully saved">>
                  ELSE <<"ERROR Error saving to JSON">>]

MinimalFilename == <<"flipkart_products.csv">>
save(products_, filename, files, io) ==
    IF products_ = << >>
    THEN [fs |-> files, ret |-> RetNone, log |-> <<"No products found to save.">>]
    ELSE [fs |-> write_file(files, filename, "csv", products_, io), ret |-> RetNone,
          log |-> IF io = "ok" THEN <<"Data saved">> ELSE <<"Error saving data">>]

(* ----------------------------- Orchestrator ---------------------------- *)
auto_filename_mutant(query, t) == <<"flipkart_">> \o replace(query, " ", "_")
auto_filename(query, t) ==
    <<"flipkart_">> \o replace(query, " ", "_") \o <<"_">> \o <<strftime(t)>>

out_stem(query, out, t) == IF ~truthy(out) THEN auto_filename(query, t) ELSE out[1]
extension(format) == IF format = "json" THEN <<".json">> ELSE <<".csv">>

(* ------------------------------- Fetcher ------------------------------- *)
in_range(a, r) == a < r
wait_time_mutant(a) == a * BackoffUnit
wait_time(a) == (a + 1) * BackoffUnit
sleep(secs) == now' = now + secs * TicksPerSecond

(* ------------------------------- inputs -------------------------------- *)
FullContainer ==
    [class |-> ContainerClass, name |-> Some(NameText), price |-> Some(PriceText),
     rating |-> Some(RatingText), link |-> Some([href |-> Some(Href)]), fault |-> FALSE]
NoRatingContainer == [FullContainer EXCEPT !.rating = None]
FaultyContainer == [FullContainer EXCEPT !.fault = TRUE]
EmptyBody == << >>
Bodies == {EmptyBody, <<OtherElement>>, <<FaultyContainer>>, <<FullContainer>>,
           <<OtherElement, NoRatingContainer>>}
(* the query reaches the URL with its spaces as "+", the file name with    *)
(* them as "_"; only the file name is state                                *)
Queries == {<<"a", " ", "b">>, <<"a", "_", "b">>, <<"c">>}
Formats == {"csv", "json"}
Outputs == {None, Some(<<"out">>)}
Transports == {"ok", "connection_error", "bad_status"}

(* ============================ enhanced variant ========================== *)
(* main(): builds the WebScraper and calls scrape, which logs and enters   *)
(* fetch's attempt loop                                                    *)
main_advanced(q, f, o, gap) ==
    /\ pc \in {"idle", "done", "crashed"}
    /\ runs_left > 0
    /\ runs_left' = runs_left - 1
    /\ now' = now + gap
    /\ variant' = "enhanced"
    /\ search_query' = q
    /\ output_format' = f
    /\ output_filename' = o
    /\ attempt' = 0
    /\ gets' = 0
    /\ outcomes' = << >>
    /\ sleeps' = << >>
    /\ html' = None
    /\ products' = << >>
    /\ stages' = <<"Fetch">>
    /\ log' = <<"INFO Starting scrape">>
    /\ save_ret' = "unset"
    /\ io_seen' = "unset"
    /\ fs_before' = fs
    /\ pc' = "fetch"
    /\ UNCHANGED <<max_retries, delay, fs, written>>

(* one pass of the attempt loop whose GET returns a 2xx response *)
fetch_success(body) ==
    /\ pc = "fetch" /\ variant = "enhanced"
    /\ in_range(attempt, max_retries)
    /\ gets' = gets + 1
    /\ outcomes' = Append(outcomes, Some(body))
    /\ sleep(delay)
    /\ sleeps' = Append(sleeps, [kind |-> "throttle", secs |-> delay])
    /\ html' = Some(body)
    /\ log' = Append(log, "INFO Fetching URL")
    /\ pc' = "fetched"
    /\ UNCHANGED <<max_retries, delay, runs_left, variant, search_query, output_format,
                   output_filename, attempt, products, fs, fs_before, io_seen, save_ret,
                   written, stages>>

(* one pass of the attempt loop whose GET raises requests.RequestException *)
fetch_failure ==
    /\ pc = "fetch" /\ variant = "enhanced"
    /\ in_range(attempt, max_retries)
    /\ gets' = gets + 1
    /\ outcomes' = Append(outcomes, None)
    /\ IF attempt < max_retries - 1
       THEN /\ sleep(wait_time(attempt))
            /\ sleeps' = Append(sleeps, [kind |-> "backoff", secs |-> wait_time(attempt)])
            /\ attempt' = attempt + 1
            /\ log' = log \o <<"INFO Fetching URL", "ERROR Error fetching URL", "INFO Retrying">>
            /\ UNCHANGED <<html, pc>>
       ELSE /\ html' = None
            /\ pc' = "fetched"
            /\ log' = log \o <<"INFO Fetching URL", "ERROR Error fetching URL",
                               "ERROR Failed to fetch URL after all attempts">>
            /\ UNCHANGED <<now, sleeps, attempt>>
    /\ UNCHANGED <<max_retries, delay, runs_left, variant, search_query, output_format,
                   output_filename, products, fs, fs_before, io_seen, save_ret, written,
                   stages>>

(* range(max_retries) is empty: the loop body never runs and fetch falls   *)
(* off its end, returning None                                             *)
fetch_no_attempt ==
    /\ pc = "fetch" /\ variant = "enhanced"
    /\ ~in_range(attempt, max_retries)
    /\ html' = None
    /\ pc' = "fetched"
    /\ UNCHANGED <<max_retries, delay, runs_left, now, variant, search_query, output_format,
                   output_filename, attempt, gets, outcomes, sleeps, products, fs, fs_before,
                   io_seen, save_ret, written, stages, log>>

(* scrape after fetch returned: the html check, extract_products and the   *)
(* products check                                                          *)
scrape_extract ==
    /\ pc = "fetched" /\ variant = "enhanced"
    /\ IF ~truthy(html)
       THEN /\ log' = Append(log, "ERROR Failed to fetch HTML content")
            /\ pc' = "done"
            /\ UNCHANGED <<products, stages>>
       ELSE LET found == extract_products(html[1], now)
            IN  /\ products' = found
                /\ stages' = Append(stages, "Extract")
                /\ IF no_products(found)
                   THEN /\ log' = Append(log, "WARNING No products found")
                        /\ pc' = "done"
                   ELSE /\ log' = log
                        /\ pc' = "persist"
    /\ UNCHANGED <<max_retries, delay, runs_left, now, variant, search_query, output_format,
                   output_filename, attempt, gets, outcomes, sleeps, html, fs, fs_before,
                   io_seen, save_ret, written>>

(* scrape after extraction: the file name, the save and the closing log    *)
scrape_persist(io) ==
    /\ pc = "persist" /\ variant = "enhanced"
    /\ LET stem == out_stem(search_query, output_filename, now)
           name == stem \o extension(output_format)
           res  == IF output_format = "json"
                   THEN save_to_json(products, name, fs, io)
                   ELSE save_to_csv(products, name, fs, io)
       IN  /\ fs' = res.fs
           /\ save_ret' = res.ret
           /\ log' = log \o res.log \o <<"INFO Scraping completed">>
           /\ written' = Append(written,
                  [name |-> name, auto |-> ~truthy(output_filename), query |-> search_query,
                   at |-> now, format |-> output_format, variant |-> variant])
    /\ io_seen' = io
    /\ stages' = stages \o <<"Persist", "Report">>
    /\ pc' = "done"
    /\ UNCHANGED <<max_retries, delay, runs_left, now, variant, search_query, output_format,
                   output_filename, attempt, gets, outcomes, sleeps, html, products,
                   fs_before>>

(* ============================ minimal variant =========================== *)
main_minimal(gap) ==
    /\ pc \in {"idle", "done", "crashed"}
    /\ runs_left > 0
    /\ runs_left' = runs_left - 1
    /\ now' = now + gap
    /\ variant' = "minimal"
    /\ search_query' = <<"l", "a", "p", "t", "o", "p", "s">>
    /\ output_format' = "csv"
    /\ output_filename' = None
    /\ attempt' = 0
    /\ gets' = 0
    /\ outcomes' = << >>
    /\ sleeps' = << >>
    /\ html' = None
    /\ products' = << >>
    /\ stages' = <<"Fetch">>
    /\ log' = <<"Fetching data from Flipkart...">>
    /\ save_ret' = "unset"
    /\ io_seen' = "unset"
    /\ fs_before' = fs
    /\ pc' = "fetch"
    /\ UNCHANGED <<max_retries, delay, fs, written>>

(* fetch(url): one GET, a fixed sleep, then raise_for_status; no handler   *)
minimal_fetch(transport, body) ==
    /\ pc = "fetch" /\ variant = "minimal"
    /\ gets' = gets + 1
    /\ IF transport = "connection_error"
       THEN /\ outcomes' = Append(outcomes, None)
            /\ pc' = "crashed"
            /\ UNCHANGED <<now, sleeps, html>>
       ELSE /\ sleep(MinimalSleep)
            /\ sleeps' = Append(sleeps, [kind |-> "throttle", secs |-> MinimalSleep])
            /\ IF transport = "bad_status"
               THEN /\ outcomes' = Append(outcomes, None)
                    /\ pc' = "crashed"
                    /\ html' = html
               ELSE /\ outcomes' = Append(outcomes, Some(body))
                    /\ html' = Some(body)
                    /\ pc' = "fetched"
    /\ UNCHANGED <<max_retries, delay, runs_left, variant, search_query, output_format,
                   output_filename, attempt, products, fs, fs_before, io_seen, save_ret,
                   written, stages, log>>

(* main() after fetch returned: extract, then save when there are products *)
minimal_extract_save(io) ==
    /\ pc = "fetched" /\ variant = "minimal"
    /\ LET r == extract(html[1])
       IN  IF r.raised
           THEN /\ pc' = "crashed"
                /\ stages' = Append(stages, "Extract")
                /\ log' = Append(log, "Extracting product details...")
                /\ UNCHANGED <<products, fs, save_ret, io_seen, written>>
           ELSE IF r.products # << >>
           THEN LET res == save(r.products, MinimalFilename, fs, io)
                IN  /\ products' = r.products
                    /\ fs' = res.fs
                    /\ save_ret' = res.ret
                    /\ io_seen' = io
                    /\ stages' = stages \o <<"Extract", "Persist">>
                    /\ log' = log \o <<"Extracting product details...", "Found products. Saving to CSV...">>
                               \o res.log
                    /\ written' = Append(written,
                           [name |-> MinimalFilename, auto |-> TRUE, query |-> search_query,
                            at |-> now, format |-> "csv", variant |-> variant])
                    /\ pc' = "done"
           ELSE /\ products' = r.products
                /\ stages' = Append(stages, "Extract")
                /\ log' = log \o <<"Extracting product details...", "No products found">>
                /\ pc' = "done"
                /\ UNCHANGED <<fs, save_ret, io_seen, written>>
    /\ UNCHANGED <<max_retries, delay, runs_left, now, variant, search_query, output_format,
                   output_filename, attempt, gets, outcomes, sleeps, html, fs_before>>

(* ============================ specifications ============================ *)
Blank ==
    /\ now = 0
    /\ pc = "idle"
    /\ variant = "none"
    /\ search_query = << >>
    /\ output_format = "csv"
    /\ output_filename = None
    /\ attempt = 0
    /\ gets = 0
    /\ outcomes = << >>
    /\ sleeps = << >>
    /\ html = None
    /\ products = << >>
    /\ fs = EmptyFs
    /\ fs_before = EmptyFs
    /\ io_seen = "unset"
    /\ save_ret = "unset"
    /\ written = << >>
    /\ stages = << >>
    /\ log = << >>

(* one process run, for every configuration of the scraper *)
Init ==
    /\ max_retries \in 0..MaxRetries
    /\ delay \in 0..MaxDelay
    /\ runs_left = 1
    /\ Blank

Next ==
    \/ \E q \in Queries, f \in Formats, o \in Outputs, gap \in 0..MaxGap :
          main_advanced(q, f, o, gap)
    \/ \E body \in Bodies : fetch_success(body)
    \/ fetch_failure
    \/ fetch_no_attempt
    \/ scrape_extract
    \/ \E io \in IOOutcomes : scrape_persist(io)
    \/ \E gap \in 0..MaxGap : main_minimal(gap)
    \/ \E t \in Transports, body \in Bodies : minimal_fetch(t, body)
    \/ \E io \in IOOutcomes : minimal_extract_save(io)

Spec == Init /\ [][Next]_vars

(* several runs of the enhanced scraper one after another on the same     *)
(* file system, each auto-naming its output                                *)
InitRuns ==
    /\ max_retries = 1
    /\ delay \in {0, 1}
    /\ runs_left = MaxRuns
    /\ Blank

RunBodies == {<<OtherElement>>, <<FullContainer>>}

NextRuns ==
    \/ \E q \in Queries, f \in Formats, gap \in 0..MaxGap : main_advanced(q, f, None, gap)
    \/ \E body \in RunBodies : fetch_success(body)
    \/ fetch_failure
    \/ scrape_extract
    \/ \E io \in {"ok", "open_fails"} : scrape_persist(io)

SpecRuns == InitRuns /\ [][NextRuns]_vars

(* ===================== direct calls of the functions ==================== *)
(* extract_products / extract on every bounded page, then save_to_csv,     *)
(* save_to_json / save on what was extracted, on a file system in which    *)
(* the target files exist or not                                           *)
UnitCsv == <<"out", ".csv">>
UnitJson == <<"out", ".json">>
OldFile == [format |-> "csv", rows |-> <<[Name |-> <<"o", "l", "d">>]>>]
OldFs == put(put(put(EmptyFs, UnitCsv, OldFile), UnitJson, OldFile), MinimalFilename, OldFile)

InitUnit ==
    /\ max_retries = 1
    /\ delay = 0
    /\ runs_left = 0
    /\ now \in {0, TicksPerSecond + 1}
    /\ pc = "unit_ready"
    /\ variant = "none"
    /\ search_query = << >>
    /\ output_format = "csv"
    /\ output_filename = None
    /\ attempt = 0
    /\ gets = 0
    /\ outcomes = << >>
    /\ sleeps = << >>
    /\ html \in {Some(p) : p \in Pages}
    /\ products = << >>
    /\ fs \in {EmptyFs, OldFs}
    /\ fs_before = fs
    /\ io_seen = "unset"
    /\ save_ret = "unset"
    /\ written = << >>
    /\ stages = << >>
    /\ log = << >>

unit_extract_products ==
    /\ pc = "unit_ready"
    /\ variant' = "enhanced"
    /\ products' = extract_products(html[1], now)
    /\ stages' = <<"extract_products">>
    /\ pc' = "unit_extracted"
    /\ UNCHANGED <<max_retries, delay, runs_left, now, search_query, output_format,
                   output_filename, attempt, gets, outcomes, sleeps, html, fs, fs_before,
                   io_seen, save_ret, written, log>>

unit_extract ==
    /\ pc = "unit_ready"
    /\ variant' = "minimal"
    /\ LET r == extract(html[1])
       IN  /\ products' = r.products
           /\ pc' = IF r.raised THEN "unit_raised" ELSE "unit_extracted"
    /\ stages' = <<"extract">>
    /\ UNCHANGED <<max_retries, delay, runs_left, now, search_query, output_format,
                   output_filename, attempt, gets, outcomes, sleeps, html, fs, fs_before,
                   io_seen, save_ret, written, log>>

unit_saved(res, io, called) ==
    /\ fs_before' = fs
    /\ fs' = res.fs
    /\ save_ret' = res.ret
    /\ log' = res.log
    /\ io_seen' = io
    /\ stages' = Append(stages, called)
    /\ pc' = "unit_saved"
    /\ UNCHANGED <<max_retries, delay, runs_left, now, variant, search_query, output_format,
                   output_filename, attempt, gets, outcomes, sleeps, html, products, written>>

unit_save_to_csv(io) ==
    /\ pc = "unit_extracted" /\ variant = "enhanced"
    /\ unit_saved(save_to_csv(products, UnitCsv, fs, io), io, "save_to_csv")

unit_save_to_json(io) ==
    /\ pc = "unit_extracted" /\ variant = "enhanced"
    /\ unit_saved(save_to_json(products, UnitJson, fs, io), io, "save_to_json")

unit_save(io) ==
    /\ pc = "unit_extracted" /\ variant = "minimal"
    /\ unit_saved(save(products, MinimalFilename, fs, io), io, "save")

NextUnit ==
    \/ unit_extract_products
    \/ unit_extract
    \/ \E io \in IOOutcomes : unit_save_to_csv(io)
    \/ \E io \in IOOutcomes : unit_save_to_json(io)
    \/ \E io \in IOOutcomes : unit_save(io)

SpecUnit == InitUnit /\ [][NextUnit]_vars

(* ================================ claims ================================ *)
FetchReturned == pc \in {"fetched", "persist", "done"}
AllFailed == \A i \in 1..Len(outcomes) : outcomes[i] = None
Backoffs(n) == [i \in 1..n |-> [kind |-> "backoff", secs |-> i * 2]]
StageOrder == <<"Fetch", "Extract", "Persist", "Report">>
IsPrefix(a, b) == Len(a) <= Len(b) /\ SubSeq(b, 1, Len(a)) = a
InStages(st) == \E i \in 1..Len(stages) : stages[i] = st
Last(q) == q[Len(q)]

(* C1: when every attempt of a fetch call fails, the call makes exactly    *)
(* max_retries GET attempts and returns None, and no exception escapes     *)
(* (the enhanced fetch is held to the attempt count; both variants to the  *)
(* None result without an exception)                                       *)
C1_ExhaustedFetchReturnsNone ==
    (pc \in {"fetched", "crashed"} /\ stages = <<"Fetch">> /\ AllFailed)
        => /\ pc = "fetched"
           /\ html = None
           /\ (variant = "enhanced" => gets = max_retries)

(* the same statement of the enhanced fetch alone *)
EnhancedExhaustedFetchReturnsNone ==
    (variant = "enhanced" /\ pc = "fetched" /\ AllFailed)
        => (html = None /\ gets = max_retries)

(* C2: when attempts 1..k-1 fail and attempt k succeeds, fetch returns the *)
(* body of attempt k after exactly k GETs, having slept the backoffs       *)
(* 2, 4, ..., 2(k-1) seconds in that order before the success, with no     *)
(* backoff after the last attempt (after an exhausted fetch too)           *)
C2_BackoffSchedule ==
    (variant = "enhanced" /\ pc = "fetched")
        => IF html # None
           THEN /\ gets = Len(outcomes)
                /\ gets \in 1..max_retries
                /\ outcomes[gets] = html
                /\ \A i \in 1..(gets - 1) : outcomes[i] = None
                /\ Len(sleeps) = gets
                /\ SubSeq(sleeps, 1, gets - 1) = Backoffs(gets - 1)
                /\ sleeps[gets] = [kind |-> "throttle", secs |-> delay]
           ELSE /\ gets = max_retries
                /\ sleeps = Backoffs(IF gets > 0 THEN gets - 1 ELSE 0)

C2_Witness ==
    /\ variant = "enhanced" /\ pc = "fetched" /\ html # None
    /\ gets = 3
    /\ sleeps = <<[kind |-> "backoff", secs |-> 2], [kind |-> "backoff", secs |-> 4],
                  [kind |-> "throttle", secs |-> delay]>>

(* C3: no run ends by an exception escaping it, whatever fails *)
C3_NoErrorIsFatal == pc # "crashed"

(* C6: in a scrape run the stages happen at most once each and in the      *)
(* order Fetch, Extract, Persist, Report; no HTML means no Extract and no  *)
(* Persist; no records means no Persist                                    *)
C6_LinearStages ==
    variant = "enhanced"
        => /\ IsPrefix(stages, StageOrder)
           /\ (FetchReturned /\ html = None) => stages = <<"Fetch">>
           /\ (InStages("Extract") /\ products = << >>) => ~InStages("Persist")
           /\ pc = "done" => Len(stages) \in {1, 2, 4}

C6_Witness ==
    /\ variant = "enhanced" /\ pc = "done"
    /\ stages = <<"Fetch", "Extract">>
    /\ products = << >>
    /\ find_all(html[1]) # << >>

(* C10: scrape treats an empty body like None: it logs the fetch failure   *)
(* and ends without extracting, so extract_products only ever sees         *)
(* non-empty HTML                                                          *)
C10_EmptyBodyIsFetchFailure ==
    variant = "enhanced"
        => /\ InStages("Extract") => (html # None /\ html[1] # EmptyBody)
           /\ (pc = "done" /\ (html = None \/ html = Some(EmptyBody)))
                 => /\ Last(log) = "ERROR Failed to fetch HTML content"
                    /\ stages = <<"Fetch">>

C10_Witness ==
    /\ variant = "enhanced" /\ pc = "done"
    /\ html = Some(EmptyBody)
    /\ gets = 1
    /\ Last(log) = "ERROR Failed to fetch HTML content"
    /\ stages = <<"Fetch">>

(* ------------------------- claims on direct calls ----------------------- *)
Extracted == pc \in {"unit_extracted", "unit_raised", "unit_saved"}
Cards == find_all(html[1])
NoFault == \A i \in 1..Len(Cards) : ~Cards[i].fault
Missing(elem) == elem = None
LinkMissing(elem) == elem = None \/ elem[1].href = None
Trimmed(elem) == strip(elem[1])

FieldsAsClaimed(c, rec) ==
    /\ rec.Name = (IF Missing(c.name) THEN NA ELSE Trimmed(c.name))
    /\ rec.Price = (IF Missing(c.price) THEN NA ELSE Trimmed(c.price))
    /\ rec.Rating = (IF Missing(c.rating) THEN NA ELSE Trimmed(c.rating))
    /\ "Link" \in DOMAIN rec =>
          rec.Link = (IF LinkMissing(c.link) THEN NA
                      ELSE <<"https://www.flipkart.com">> \o c.link[1].href[1])

(* C4: every container, whatever subset of its fields is missing, gives a  *)
(* record with "N/A" in exactly the missing positions and the trimmed text *)
(* (link: the absolute URL) elsewhere; a missing field never raises and    *)
(* never drops the record                                                  *)
C4_MissingFieldsGiveNA ==
    (Extracted /\ NoFault)
        => /\ pc # "unit_raised"
           /\ Len(products) = Len(Cards)
           /\ \A i \in 1..Len(Cards) : FieldsAsClaimed(Cards[i], products[i])

(* the same statement of the enhanced extract_products alone *)
EnhancedMissingFieldsGiveNA ==
    (variant = "enhanced" /\ Extracted /\ NoFault)
        => /\ Len(products) = Len(Cards)
           /\ \A i \in 1..Len(Cards) : FieldsAsClaimed(Cards[i], products[i])

Fails(c) == IF variant = "minimal" THEN minimal_raises(c) ELSE c.fault
Survivors == SelectSeq(Cards, LAMBDA c : ~Fails(c))

(* C5: when some containers raise, extraction still returns, with one      *)
(* record per non-failing container, in document order, and nothing of a   *)
(* failing container                                                       *)
C5_FailingContainersSkipped ==
    Extracted
        => /\ pc # "unit_raised"
           /\ Len(products) = Len(Survivors)
           /\ \A i \in 1..Len(Survivors) : FieldsAsClaimed(Survivors[i], products[i])

(* the same statement of the enhanced extract_products alone *)
EnhancedFailingContainersSkipped ==
    (variant = "enhanced" /\ Extracted)
        => /\ Len(products) = Len(Survivors)
           /\ \A i \in 1..Len(Survivors) : FieldsAsClaimed(Survivors[i], products[i])

(* C7: a page without product containers extracts to the empty sequence,   *)
(* and a save of the empty sequence leaves the file system as it was:      *)
(* no file created, none truncated                                         *)
C7_EmptyIsNoOp ==
    /\ (Extracted /\ Cards = << >>) => (pc # "unit_raised" /\ products = << >>)
    /\ (pc = "unit_saved" /\ products = << >>) => fs = fs_before

C7_Witness ==
    /\ pc = "unit_saved"
    /\ html[1] # EmptyBody /\ Cards = << >>
    /\ products = << >>
    /\ Last(stages) = "save_to_csv"
    /\ fs = OldFs

(* C9: a save whose write fails gives its caller a result that differs     *)
(* from the result of a successful write                                   *)
ReturnOnSuccess ==
    IF Last(stages) = "save_to_csv" THEN save_to_csv(products, UnitCsv, EmptyFs, "ok").ret
    ELSE IF Last(stages) = "save_to_json" THEN save_to_json(products, UnitJson, EmptyFs, "ok").ret
    ELSE save(products, MinimalFilename, EmptyFs, "ok").ret

C9_SaveReportsFailure ==
    (pc = "unit_saved" /\ products # << >> /\ io_seen # "ok")
        => save_ret # ReturnOnSuccess

(* the part of C9 the code keeps: a failed write is caught and logged *)
SaveFailureIsLogged ==
    (pc = "unit_saved" /\ products # << >> /\ io_seen # "ok")
        => log \in {<<"ERROR Error saving to CSV">>, <<"ERROR Error saving to JSON">>,
                    <<"Error saving data">>}

(* --------------------------- claims on runs ----------------------------- *)
AutoNamed(i) == written[i].auto /\ written[i].variant = "enhanced"
Second(i) == written[i].at \div TicksPerSecond
Sanitized(i) == replace(written[i].query, " ", "_")

====
